---- MODULE Spec2Model ----
(***************************************************************************)
(* Model of the Reolink full-day downloader (src/app.py): the planner that *)
(* slices recorded segments into chunks, the shared queue, the workers     *)
(* with their own sessions and their retry loop, the progress counters     *)
(* and the orchestrating coroutine download_day_recordings_parallel.       *)
(* Time is counted in minutes, file sizes in streamed blocks.              *)
(***************************************************************************)
EXTENDS Integers, Sequences, FiniteSets, TLC

\* ---------------------------------------------------------------- constants
CHUNK_DURATION_MINUTES == 5
NUM_WORKERS == 2
max_retries == 5
STAGGER_DELAY == 1

\* ------------------------------------------------------------------- bounds
\* longest tail (minutes) a recorded segment may extend past a chunk boundary
MaxTail == 1
\* most segments the device lists for the day
MaxSegs == 2
\* most chunks in the plan of a run
MaxTasks == 2
\* most blocks one stream delivers
MaxBlocks == 1
\* planner-only runs: latest minute of a segment, largest chunk duration
MaxMinute == 12
MaxDuration == 5
\* timed runs: latest reading of the clock
MaxClock == 3
\* motion service: concurrent start_scan requests, videos in the downloads folder
MaxRequests == 2
MaxVideos == 2

VARIABLES
    recordings,     \* what the device has recorded for the day (its answer to a listing)
    num_workers,    \* argument num_workers
    chunk_duration, \* the slicing window used by the planner
    fs,             \* output directory: path -> NoFile or size of the file
    fs0,            \* the output directory as the run found it
    opc,            \* position of download_day_recordings_parallel
    aborted,        \* the scout's try block raised (the function returns after finally)
    vod_files,      \* result of request_vod_files
    chunks,         \* chunks_to_download
    queue,          \* asyncio.Queue: indices into chunks, oldest first
    progress,       \* the progress dict
    lock,           \* asyncio.Lock: 0 free, else the worker holding it
    spawned,        \* number of worker tasks created so far
    printed,        \* kinds of message the orchestrator has printed
    sess,           \* per session (0 scout, w worker): state of the Host object
    logouts,        \* per session: number of logout calls
    wpc,            \* per worker: position in worker()/download_chunk_simple()
    cur,            \* per worker: index of the chunk in hand, 0 if none
    retry,          \* per worker: loop variable retry
    wait_time,      \* per worker: local wait_time
    result,         \* per worker: value returned by download_chunk_simple
    fh,             \* per worker: the open output file (open, linked to its path, offset)
    pops,           \* per chunk: number of times it left the queue
    status,         \* per chunk: outcome recorded in progress ("none" before)
    records,        \* per chunk: number of times an outcome was recorded
    fetched,        \* chunks for which download_vod was called
    tracing,        \* whether the per-task call log is kept
    log,            \* per worker: calls and failures of the chunk in hand
    entered,        \* workers whose login and get_host_data returned (they reached the loop)
    calls,          \* per worker: download_vod calls made for the chunk in hand
    timed,          \* whether the clock runs
    now,            \* the event loop's clock, in seconds
    spawn_at,       \* per worker: clock reading at its create_task
    video_files,    \* motion service: number of videos get_video_files() finds
    scan_state,     \* motion service: the global scan_state dict
    rpc,            \* motion service, per request: position in start_scan
    response,       \* motion service, per request: what start_scan returned
    spc,            \* motion service, per scan: position in scan_videos_worker
    sidx,           \* motion service, per scan: loop variable idx
    sres            \* motion service, per scan: local results (videos with motion)

dlVars == <<recordings, num_workers, chunk_duration, fs, fs0, opc, aborted, vod_files,
          chunks, queue, progress, lock, spawned, printed, sess, logouts,
          wpc, cur, retry, wait_time, result, fh, pops, status, records, fetched,
          tracing, log, entered, calls, timed, now, spawn_at>>

scanVars == <<video_files, scan_state, rpc, response, spc, sidx, sres>>

vars == <<dlVars, scanVars>>

orchVars == <<opc, aborted, vod_files, chunks, queue, progress, lock, spawned, printed>>
workerVars == <<wpc, cur, retry, wait_time, result, fh>>

Workers == 1..NUM_WORKERS
SCOUT == 0
Sessions == {SCOUT} \cup Workers
NoFile == -1
Day == "day"

Min(a, b) == IF a < b THEN a ELSE b
Max(a, b) == IF a < b THEN b ELSE a

\* ------------------------------------------------------------------ planner
\* file_path = output_path / f"{date:%Y-%m-%d}_{chunk_start:%Y%m%d_%H%M%S}.mp4":
\* the name keeps the day and the chunk's start, nothing of the segment
OutputPath(day, chunk_start) == <<day, chunk_start>>

\* a walk that forgets to clamp the last chunk to the segment's end
RECURSIVE ChunkWalkNoClamp(_, _, _, _)
ChunkWalkNoClamp(vod_file, chunk_start, D, day) ==
    IF chunk_start < vod_file.end_time
    THEN <<[filename |-> vod_file.file_name,
            start    |-> chunk_start,
            end      |-> chunk_start + D,
            output   |-> OutputPath(day, chunk_start)]>>
         \o ChunkWalkNoClamp(vod_file, chunk_start + D, D, day)
    ELSE <<>>

RECURSIVE ChunkWalk(_, _, _, _)
ChunkWalk(vod_file, chunk_start, D, day) ==
    IF chunk_start < vod_file.end_time
    THEN LET chunk_end == Min(chunk_start + D, vod_file.end_time)
         IN  <<[filename |-> vod_file.file_name,
                start    |-> chunk_start,
                end      |-> chunk_end,
                output   |-> OutputPath(day, chunk_start)]>>
             \o ChunkWalk(vod_file, chunk_end, D, day)
    ELSE <<>>

\* a planner that keeps whole windows only and drops a shorter last chunk
PlanSegmentDropTail(vod_file, D, day) ==
    LET L == vod_file.end_time - vod_file.start_time
        whole == IF L > 0 THEN (L \div D) * D ELSE 0
    IN  ChunkWalk([vod_file EXCEPT !.end_time = vod_file.start_time + whole],
                  vod_file.start_time, D, day)

PlanSegment(vod_file, D, day) == ChunkWalk(vod_file, vod_file.start_time, D, day)

RECURSIVE BuildChunks(_, _, _)
BuildChunks(files, D, day) ==
    IF files = <<>> THEN <<>>
    ELSE PlanSegment(Head(files), D, day) \o BuildChunks(Tail(files), D, day)

\* ------------------------------------------------------------ remote device
\* An exception is known to the code by its message only; a message is
\* modelled by the marker substrings it contains (lower-cased for all but 503).
Markers == {"503", "busy", "closed", "session"}
ErrorMsgs == {{"503"}, {"busy"}, {"closed"}, {"session"}, {"busy", "session"}, {}}

\* the if/elif/else chain on str(e)
Classify(e) ==
    IF "503" \in e \/ "busy" \in e THEN "busy"
    ELSE IF "closed" \in e \/ "session" \in e THEN "session"
    ELSE "other"

\* a backoff that does not grow with the attempt
WaitTimeFlat(e, r) == IF Classify(e) = "busy" THEN 5 ELSE 2

\* wait_time = (retry + 1) * 2, or (retry + 1) * 5 for a busy device
WaitTime(e, r) == IF Classify(e) = "busy" THEN (r + 1) * 5 ELSE (r + 1) * 2

\* ------------------------------------------------------------------- inputs
SegTimes == {0} \cup {CHUNK_DURATION_MINUTES + r : r \in 0..MaxTail}
SegName(i) == <<"f", i>>
Segment(i, s, e) == [file_name |-> SegName(i), start_time |-> s, end_time |-> e]
Spans == {se \in SegTimes \X SegTimes : se[1] < se[2]}
SegmentLists ==
    UNION {{[i \in 1..n |-> Segment(i, f[i][1], f[i][2])] : f \in [1..n -> Spans]}
           : n \in 0..MaxSegs}

PlannedPaths(files, D) ==
    LET cs == BuildChunks(files, D, Day) IN {cs[i].output : i \in 1..Len(cs)}

\* the listings explored by whole runs
RunLists ==
    {l \in SegmentLists : Len(BuildChunks(l, CHUNK_DURATION_MINUTES, Day)) <= MaxTasks}

\* the listings explored by one-worker runs that keep the call log: at most
\* one segment
TaskLists == {l \in RunLists : Len(l) <= 1}

\* the listings explored by the planner alone: any one segment of the day, empty
\* and reversed ones included, and the short lists above
PlanLists ==
    {<<Segment(1, s, e)>> : s \in 0..MaxMinute, e \in 0..MaxMinute} \cup SegmentLists

NoResult == [success |-> FALSE, size |-> 0, status |-> "none"]
Closed == [open |-> FALSE, linked |-> FALSE, off |-> 0]

\* motion service: requests are numbered; the scan a request starts has its number
Requests == 1..MaxRequests

\* the module-level scan_state, and no request received
ScanIdle ==
    /\ scan_state = [running |-> FALSE, progress |-> 0, total |-> 0, current_file |-> 0,
                     results |-> {}, cancelled |-> FALSE]
    /\ rpc = [r \in Requests |-> "idle"]
    /\ response = [r \in Requests |-> "none"]
    /\ spc = [r \in Requests |-> "none"]
    /\ sidx = [r \in Requests |-> 0]
    /\ sres = [r \in Requests |-> {}]

InitCommon ==
    /\ video_files = 0
    /\ ScanIdle
    /\ num_workers \in 1..NUM_WORKERS
    /\ fs0 = fs
    /\ opc = "scout_login"
    /\ aborted = FALSE
    /\ vod_files = <<>>
    /\ chunks = <<>>
    /\ queue = <<>>
    /\ progress = [downloaded |-> 0, failed |-> 0, total |-> 0, size_mb |-> 0]
    /\ lock = 0
    /\ spawned = 0
    /\ printed = {}
    /\ sess = [s \in Sessions |-> "none"]
    /\ logouts = [s \in Sessions |-> 0]
    /\ wpc = [w \in Workers |-> "idle"]
    /\ cur = [w \in Workers |-> 0]
    /\ retry = [w \in Workers |-> 0]
    /\ wait_time = [w \in Workers |-> 0]
    /\ result = [w \in Workers |-> NoResult]
    /\ fh = [w \in Workers |-> Closed]
    /\ pops = <<>>
    /\ status = <<>>
    /\ records = <<>>
    /\ fetched = {}
    /\ log = [w \in Workers |-> <<>>]
    /\ entered = {}
    /\ calls = [w \in Workers |-> 0]
    /\ now = 0
    /\ spawn_at = [w \in Workers |-> 0]

\* a run of the program: any listing, one or two workers, an output directory
\* where each planned file is missing or complete
Init ==
    /\ recordings \in RunLists
    /\ chunk_duration = CHUNK_DURATION_MINUTES
    /\ fs \in [PlannedPaths(recordings, CHUNK_DURATION_MINUTES) -> {NoFile, 1}]
    /\ tracing = FALSE
    /\ timed = FALSE
    /\ InitCommon

\* a run with one worker that keeps the call log of the chunk in hand; a planned
\* file may also be present and empty
InitTask ==
    /\ recordings \in TaskLists
    /\ chunk_duration = CHUNK_DURATION_MINUTES
    /\ fs \in [PlannedPaths(recordings, CHUNK_DURATION_MINUTES) -> {NoFile, 0, 1}]
    /\ tracing = TRUE
    /\ timed = FALSE
    /\ InitCommon
    /\ num_workers = 1

\* a run whose clock runs: the pauses of the create_task loop take their time
InitClock ==
    /\ recordings \in TaskLists
    /\ chunk_duration = CHUNK_DURATION_MINUTES
    /\ fs \in [PlannedPaths(recordings, CHUNK_DURATION_MINUTES) -> {NoFile, 1}]
    /\ tracing = FALSE
    /\ timed = TRUE
    /\ InitCommon

\* the planner alone, for any chunk duration: the scout has listed vod_files
InitPlan ==
    /\ recordings \in PlanLists
    /\ chunk_duration \in 1..MaxDuration
    /\ fs = <<>>
    /\ tracing = FALSE
    /\ timed = FALSE
    /\ InitCommon
    /\ num_workers = 1

\* ------------------------------------------------------------- orchestrator
\* the call log of the chunk a worker has in hand, kept when tracing
Logged(w, ev) == IF tracing THEN [log EXCEPT ![w] = Append(@, ev)] ELSE log
Logged2(w, ev1, ev2) == IF tracing THEN [log EXCEPT ![w] = @ \o <<ev1, ev2>>] ELSE log

\* an except branch that reports the error and does not return
ScoutRaisedContinues ==
    /\ aborted' = FALSE
    /\ printed' = printed \cup {"search_error"}
    /\ opc' = "scout_logout"

\* the except branch of the scout's try block: report, then finally, then return
ScoutRaised ==
    /\ aborted' = TRUE
    /\ printed' = printed \cup {"search_error"}
    /\ opc' = "scout_logout"

\* api = Host(...); await api.login()
ScoutLogin ==
    /\ opc = "scout_login"
    /\ \/ /\ sess' = [sess EXCEPT ![SCOUT] = "authenticated"]
          /\ opc' = "scout_hostdata"
          /\ UNCHANGED <<aborted, printed>>
       \/ /\ sess' = [sess EXCEPT ![SCOUT] = "created"]
          /\ ScoutRaised
    /\ UNCHANGED <<scanVars, recordings, num_workers, chunk_duration, fs0, timed, now, spawn_at, entered, calls, fs, vod_files, chunks, queue,
                   progress, lock, spawned, logouts, workerVars, pops, status, records,
                   fetched, tracing, log>>

\* await api.get_host_data()
ScoutHostData ==
    /\ opc = "scout_hostdata"
    /\ \/ /\ opc' = "scout_list"
          /\ UNCHANGED <<aborted, printed>>
       \/ ScoutRaised
    /\ UNCHANGED <<scanVars, recordings, num_workers, chunk_duration, fs0, timed, now, spawn_at, entered, calls, fs, vod_files, chunks, queue,
                   progress, lock, spawned, sess, logouts, workerVars, pops, status,
                   records, fetched, tracing, log>>

\* status_list, vod_files = await api.request_vod_files(...)
ScoutList ==
    /\ opc = "scout_list"
    /\ \/ /\ vod_files' = recordings
          /\ opc' = "scout_logout"
          /\ UNCHANGED <<aborted, printed>>
       \/ /\ ScoutRaised
          /\ UNCHANGED vod_files
    /\ UNCHANGED <<scanVars, recordings, num_workers, chunk_duration, fs0, timed, now, spawn_at, entered, calls, fs, chunks, queue,
                   progress, lock, spawned, sess, logouts, workerVars, pops, status,
                   records, fetched, tracing, log>>

\* a continuation that plans whatever the listing returned
AfterScoutNoCheck ==
    IF aborted
    THEN opc' = "done" /\ UNCHANGED printed
    ELSE opc' = "plan" /\ printed' = printed \cup {"found"}

\* what follows the scout's finally block: the return of the except branch, the
\* "if not vod_files" return, or on to the planning
AfterScout ==
    IF aborted
    THEN opc' = "done" /\ UNCHANGED printed
    ELSE IF vod_files = <<>>
         THEN opc' = "done" /\ printed' = printed \cup {"no_recordings"}
         ELSE opc' = "plan" /\ printed' = printed \cup {"found"}

\* finally: try: await api.logout(); it returns, or it raises into "except: pass"
ScoutLogout ==
    /\ opc = "scout_logout"
    /\ logouts' = [logouts EXCEPT ![SCOUT] = @ + 1]
    /\ sess' = [sess EXCEPT ![SCOUT] = "closed"]
    /\ \/ AfterScout
       \/ opc' = "scout_logout_except" /\ UNCHANGED printed
    /\ UNCHANGED <<scanVars, recordings, num_workers, chunk_duration, fs0, timed, now, spawn_at, entered, calls, fs, aborted, vod_files, chunks,
                   queue, progress, lock, spawned, workerVars, pops, status,
                   records, fetched, tracing, log>>

\* except: pass
ScoutLogoutSwallowed ==
    /\ opc = "scout_logout_except"
    /\ AfterScout
    /\ UNCHANGED <<scanVars, recordings, num_workers, chunk_duration, fs0, timed, now, spawn_at, entered, calls, fs, aborted, vod_files, chunks,
                   queue, progress, lock, spawned, sess, logouts, workerVars, pops,
                   status, records, fetched, tracing, log>>

\* the loop that fills chunks_to_download
Plan ==
    /\ opc = "plan"
    /\ chunks' = BuildChunks(vod_files, chunk_duration, Day)
    /\ opc' = "preload"
    /\ UNCHANGED <<scanVars, recordings, num_workers, chunk_duration, fs0, timed, now, spawn_at, entered, calls, fs, aborted, vod_files, queue,
                   progress, lock, spawned, printed, sess, logouts, workerVars,
                   pops, status, records, fetched, tracing, log>>

\* queue.put_nowait of every chunk; the progress dict and the lock
Preload ==
    /\ opc = "preload"
    /\ queue' = [i \in 1..Len(chunks) |-> i]
    /\ progress' = [downloaded |-> 0, failed |-> 0, total |-> Len(chunks), size_mb |-> 0]
    /\ lock' = 0
    /\ pops' = [i \in 1..Len(chunks) |-> 0]
    /\ status' = [i \in 1..Len(chunks) |-> "none"]
    /\ records' = [i \in 1..Len(chunks) |-> 0]
    /\ opc' = "spawn"
    /\ UNCHANGED <<scanVars, recordings, num_workers, chunk_duration, fs0, timed, now, spawn_at, entered, calls, fs, aborted, vod_files, chunks,
                   spawned, printed, sess, logouts, workerVars, fetched,
                   tracing, log>>

\* asyncio.create_task(worker(worker_id=i + 1, ...)), then the orchestrator sleeps
Spawn ==
    /\ opc = "spawn"
    /\ spawned < num_workers
    /\ spawned' = spawned + 1
    /\ wpc' = [wpc EXCEPT ![spawned + 1] = "start"]
    /\ spawn_at' = [spawn_at EXCEPT ![spawned + 1] = now]
    /\ opc' = "stagger"
    /\ UNCHANGED <<scanVars, recordings, num_workers, chunk_duration, fs0, timed, now, entered, calls, fs, aborted, vod_files, chunks,
                   queue, progress, lock, printed, sess, logouts, cur, retry,
                   wait_time, result, fh, pops, status, records, fetched, tracing, log>>

\* a pause that returns at once
StaggerNoDelay ==
    /\ opc = "stagger"
    /\ opc' = IF spawned < num_workers THEN "spawn" ELSE "gather"
    /\ UNCHANGED <<scanVars, recordings, num_workers, chunk_duration, fs0, timed, now, spawn_at, entered, calls, fs, aborted, vod_files, chunks,
                   queue, progress, lock, spawned, printed, sess, logouts,
                   workerVars, pops, status, records, fetched, tracing, log>>

\* await asyncio.sleep(1) returns, STAGGER_DELAY after it was called (the call
\* follows create_task with no await in between): next iteration of the loop,
\* or on to gather
Stagger ==
    /\ opc = "stagger"
    /\ timed => now >= spawn_at[spawned] + STAGGER_DELAY
    /\ opc' = IF spawned < num_workers THEN "spawn" ELSE "gather"
    /\ UNCHANGED <<scanVars, recordings, num_workers, chunk_duration, fs0, timed, now, spawn_at, entered, calls, fs, aborted, vod_files, chunks,
                   queue, progress, lock, spawned, printed, sess, logouts,
                   workerVars, pops, status, records, fetched, tracing, log>>

\* a summary printed as soon as the workers are created, without the gather
SummaryNoGather ==
    /\ opc = "gather"
    /\ printed' = printed \cup {"summary"}
    /\ opc' = "done"
    /\ UNCHANGED <<scanVars, recordings, num_workers, chunk_duration, fs0, timed, now, spawn_at, entered, calls, fs, aborted, vod_files, chunks,
                   queue, progress, lock, spawned, sess, logouts, workerVars,
                   pops, status, records, fetched, tracing, log>>

\* await asyncio.gather(*workers) returns; the summary is printed
Summary ==
    /\ opc = "gather"
    /\ \A w \in 1..spawned : wpc[w] = "done"
    /\ printed' = printed \cup {"summary"}
    /\ opc' = "done"
    /\ UNCHANGED <<scanVars, recordings, num_workers, chunk_duration, fs0, timed, now, spawn_at, entered, calls, fs, aborted, vod_files, chunks,
                   queue, progress, lock, spawned, sess, logouts, workerVars,
                   pops, status, records, fetched, tracing, log>>


\* ------------------------------------------------------------------- worker
PathOf(w) == chunks[cur[w]].output

\* output_path.exists() and output_path.stat().st_size > 0
ExistsNonEmpty(p) == fs[p] # NoFile /\ fs[p] > 0

\* output_path.unlink(): the name goes; a file another worker still has open
\* lives on without a name
HandlesAfterUnlink(w, p) ==
    [v \in Workers |->
        IF v = w THEN Closed
        ELSE IF fh[v].open /\ cur[v] # 0 /\ chunks[cur[v]].output = p
             THEN [fh[v] EXCEPT !.linked = FALSE]
             ELSE fh[v]]

\* the code after the retry loop: remove a partial file, return "failed"
GiveUp(w) ==
    /\ IF fs[PathOf(w)] # NoFile
       THEN /\ fs' = [fs EXCEPT ![PathOf(w)] = NoFile]
            /\ fh' = HandlesAfterUnlink(w, PathOf(w))
       ELSE /\ fs' = fs
            /\ fh' = [fh EXCEPT ![w] = Closed]
    /\ result' = [result EXCEPT ![w] = [success |-> FALSE, size |-> 0, status |-> "failed"]]
    /\ wpc' = [wpc EXCEPT ![w] = "record"]

\* an except branch whose session case sleeps and retries without api.login()
SleepAtNoRelogin(class) ==
    CASE class = "busy" -> "sleep_busy"
      [] OTHER -> "sleep_other"

\* the three "await asyncio.sleep(wait_time)" of the except branch
SleepAt(class) ==
    CASE class = "busy" -> "sleep_busy"
      [] class = "session" -> "sleep_session"
      [] OTHER -> "sleep_other"

\* an except branch that still sleeps and retries after the last iteration
AttemptRaisedOnceMore(w, e) ==
    /\ wait_time' = [wait_time EXCEPT ![w] = WaitTime(e, retry[w])]
    /\ IF retry[w] < max_retries
       THEN /\ wpc' = [wpc EXCEPT ![w] = SleepAt(Classify(e))]
            /\ fh' = [fh EXCEPT ![w] = Closed]
            /\ UNCHANGED <<fs, result>>
       ELSE GiveUp(w)
    /\ UNCHANGED retry

\* the except branch of the retry loop for an exception with message e
AttemptRaised(w, e) ==
    /\ wait_time' = [wait_time EXCEPT ![w] = WaitTime(e, retry[w])]
    /\ IF retry[w] < max_retries - 1
       THEN /\ wpc' = [wpc EXCEPT ![w] = SleepAt(Classify(e))]
            /\ fh' = [fh EXCEPT ![w] = Closed]
            /\ UNCHANGED <<fs, result>>
       ELSE GiveUp(w)
    /\ UNCHANGED retry

\* an empty file treated like a raised error: a sleep before the next attempt
AttemptEmptySleeps(w) ==
    /\ IF retry[w] < max_retries - 1
       THEN /\ wpc' = [wpc EXCEPT ![w] = "sleep_other"]
            /\ fh' = [fh EXCEPT ![w] = Closed]
            /\ UNCHANGED <<fs, result, retry>>
       ELSE GiveUp(w) /\ UNCHANGED retry
    /\ UNCHANGED wait_time

\* the try body ended without a return: the file is missing or empty, and the
\* loop goes to its next iteration at once
AttemptEmpty(w) ==
    /\ IF retry[w] < max_retries - 1
       THEN /\ retry' = [retry EXCEPT ![w] = @ + 1]
            /\ wpc' = [wpc EXCEPT ![w] = "fetch"]
            /\ fh' = [fh EXCEPT ![w] = Closed]
            /\ UNCHANGED <<fs, result>>
       ELSE GiveUp(w) /\ UNCHANGED retry
    /\ UNCHANGED wait_time

\* a worker whose failed login ends the coroutine without the finally block
WorkerLoginNoFinally(w) ==
    /\ wpc[w] = "start"
    /\ \/ /\ sess' = [sess EXCEPT ![w] = "authenticated"]
          /\ wpc' = [wpc EXCEPT ![w] = "hostdata"]
       \/ /\ sess' = [sess EXCEPT ![w] = "created"]
          /\ wpc' = [wpc EXCEPT ![w] = "done"]
    /\ UNCHANGED <<scanVars, recordings, num_workers, chunk_duration, fs0, timed, now, spawn_at, entered, calls, fs, orchVars, logouts, cur,
                   retry, wait_time, result, fh, pops, status, records, fetched,
                   tracing, log>>

\* api = Host(...); await api.login(); a failure goes to except, then finally
WorkerLogin(w) ==
    /\ wpc[w] = "start"
    /\ \/ /\ sess' = [sess EXCEPT ![w] = "authenticated"]
          /\ wpc' = [wpc EXCEPT ![w] = "hostdata"]
       \/ /\ sess' = [sess EXCEPT ![w] = "created"]
          /\ wpc' = [wpc EXCEPT ![w] = "logout"]
    /\ UNCHANGED <<scanVars, recordings, num_workers, chunk_duration, fs0, timed, now, spawn_at, entered, calls, fs, orchVars, logouts, cur,
                   retry, wait_time, result, fh, pops, status, records, fetched,
                   tracing, log>>

\* a get_host_data whose failure is ignored: the worker enters its loop anyway
WorkerHostDataIgnored(w) ==
    /\ wpc[w] = "hostdata"
    /\ wpc' = [wpc EXCEPT ![w] = "pop"]
    /\ \/ entered' = entered \cup {w}
       \/ UNCHANGED entered
    /\ UNCHANGED <<scanVars, recordings, num_workers, chunk_duration, fs0, timed, now, spawn_at, calls, fs, orchVars, sess, logouts,
                   cur, retry, wait_time, result, fh, pops, status, records, fetched,
                   tracing, log>>

\* await api.get_host_data(); a failure goes to except, then finally
WorkerHostData(w) ==
    /\ wpc[w] = "hostdata"
    /\ \/ wpc' = [wpc EXCEPT ![w] = "pop"] /\ entered' = entered \cup {w}
       \/ wpc' = [wpc EXCEPT ![w] = "logout"] /\ UNCHANGED entered
    /\ UNCHANGED <<scanVars, recordings, num_workers, chunk_duration, fs0, timed, now, spawn_at, calls, fs, orchVars, sess, logouts,
                   cur, retry, wait_time, result, fh, pops, status, records, fetched,
                   tracing, log>>

\* a get that hands out the oldest chunk and leaves it in the queue
QueueGetPeek(q) == [chunk |-> Head(q), rest |-> q]

\* queue.get_nowait(): the oldest chunk leaves the queue
QueueGet(q) == [chunk |-> Head(q), rest |-> Tail(q)]

\* chunk = queue.get_nowait(), QueueEmpty breaks out of the loop; otherwise
\* download_chunk_simple starts: the existence check and, failing it, retry = 0
Pop(w) ==
    /\ wpc[w] = "pop"
    /\ IF queue = <<>>
       THEN /\ wpc' = [wpc EXCEPT ![w] = "logout"]
            /\ UNCHANGED <<queue, cur, retry, result, pops, log>>
       ELSE LET got == QueueGet(queue)
                p == chunks[got.chunk].output
            IN  /\ queue' = got.rest
                /\ cur' = [cur EXCEPT ![w] = got.chunk]
                /\ pops' = [pops EXCEPT ![got.chunk] = @ + 1]
                /\ log' = IF tracing THEN [log EXCEPT ![w] = <<>>] ELSE log
                /\ IF ExistsNonEmpty(p)
                   THEN /\ result' = [result EXCEPT ![w] =
                              [success |-> TRUE, size |-> fs[p], status |-> "exists"]]
                        /\ wpc' = [wpc EXCEPT ![w] = "record"]
                        /\ UNCHANGED retry
                   ELSE /\ retry' = [retry EXCEPT ![w] = 0]
                        /\ wpc' = [wpc EXCEPT ![w] = "fetch"]
                        /\ UNCHANGED result
    /\ UNCHANGED <<scanVars, recordings, num_workers, chunk_duration, fs0, timed, now, spawn_at, entered, calls, fs, opc, aborted, vod_files,
                   chunks, progress, lock, spawned, printed, sess, logouts,
                   wait_time, fh, status, records, fetched, tracing>>

\* result = await api.download_vod(...): it raises, or it returns a stream and
\* open(output_path, 'wb') creates or truncates the file
Fetch(w) ==
    /\ wpc[w] = "fetch"
    /\ fetched' = fetched \cup {cur[w]}
    /\ calls' = [calls EXCEPT ![w] = @ + 1]
    /\ \/ \E e \in ErrorMsgs :
            /\ AttemptRaised(w, e)
            /\ log' = Logged2(w, <<"download_vod", w>>, <<"raised", Classify(e)>>)
       \/ /\ fs' = [fs EXCEPT ![PathOf(w)] = 0]
          /\ fh' = [fh EXCEPT ![w] = [open |-> TRUE, linked |-> TRUE, off |-> 0]]
          /\ wpc' = [wpc EXCEPT ![w] = "stream"]
          /\ log' = Logged(w, <<"download_vod", w>>)
          /\ UNCHANGED <<retry, wait_time, result>>
    /\ UNCHANGED <<scanVars, recordings, num_workers, chunk_duration, fs0, timed, now, spawn_at, entered, orchVars, sess, logouts, cur,
                   pops, status, records, tracing>>

\* async for chunk in result.stream.iter_chunked(...): a block is written, or the
\* stream ends and the size is checked, or the stream raises
Stream(w) ==
    /\ wpc[w] = "stream"
    /\ \/ /\ fh[w].off < MaxBlocks
          /\ fh' = [fh EXCEPT ![w].off = @ + 1]
          /\ fs' = IF fh[w].linked
                   THEN [fs EXCEPT ![PathOf(w)] = Max(@, fh[w].off + 1)]
                   ELSE fs
          /\ UNCHANGED <<wpc, retry, wait_time, result, log>>
       \/ /\ IF ExistsNonEmpty(PathOf(w))
             THEN /\ result' = [result EXCEPT ![w] =
                        [success |-> TRUE, size |-> fs[PathOf(w)], status |-> "downloaded"]]
                  /\ wpc' = [wpc EXCEPT ![w] = "record"]
                  /\ fh' = [fh EXCEPT ![w] = Closed]
                  /\ UNCHANGED <<fs, retry, wait_time>>
             ELSE AttemptEmpty(w)
          /\ log' = Logged(w, IF ExistsNonEmpty(PathOf(w)) THEN <<"complete", fs[PathOf(w)]>> ELSE <<"empty", 0>>)
       \/ \E e \in ErrorMsgs :
            /\ AttemptRaised(w, e)
            /\ log' = Logged(w, <<"raised", Classify(e)>>)
    /\ UNCHANGED <<scanVars, recordings, num_workers, chunk_duration, fs0, timed, now, spawn_at, entered, calls, orchVars, sess,
                   logouts, cur, pops, status, records, fetched, tracing>>

\* a backoff that logs in again whatever the error was
BackoffAlwaysRelogin(w) ==
    /\ wpc[w] \in {"sleep_busy", "sleep_session", "sleep_other"}
    /\ wpc' = [wpc EXCEPT ![w] = "relogin"]
    /\ UNCHANGED retry
    /\ log' = Logged(w, <<"sleep", wait_time[w]>>)
    /\ wait_time' = [wait_time EXCEPT ![w] = 0]
    /\ UNCHANGED <<scanVars, recordings, num_workers, chunk_duration, fs0, timed, now, spawn_at, entered, calls, fs, orchVars, sess,
                   logouts, cur, result, fh, pops, status, records, fetched,
                   tracing>>

\* await asyncio.sleep(wait_time) returns: continue, or first api.login();
\* wait_time is dead until the next except branch assigns it
Backoff(w) ==
    /\ wpc[w] \in {"sleep_busy", "sleep_session", "sleep_other"}
    /\ IF wpc[w] = "sleep_session"
       THEN /\ wpc' = [wpc EXCEPT ![w] = "relogin"]
            /\ UNCHANGED retry
       ELSE /\ wpc' = [wpc EXCEPT ![w] = "fetch"]
            /\ retry' = [retry EXCEPT ![w] = @ + 1]
    /\ log' = Logged(w, <<"sleep", wait_time[w]>>)
    /\ wait_time' = [wait_time EXCEPT ![w] = 0]
    /\ UNCHANGED <<scanVars, recordings, num_workers, chunk_duration, fs0, timed, now, spawn_at, entered, calls, fs, orchVars, sess,
                   logouts, cur, result, fh, pops, status, records, fetched,
                   tracing>>

\* a re-login made on the scout's Host object instead of the worker's own
ReloginShared(w) ==
    /\ wpc[w] = "relogin"
    /\ log' = Logged(w, <<"login", SCOUT>>)
    /\ \/ /\ sess' = [sess EXCEPT ![SCOUT] = "authenticated"]
          /\ wpc' = [wpc EXCEPT ![w] = "fetch"]
          /\ retry' = [retry EXCEPT ![w] = @ + 1]
       \/ /\ wpc' = [wpc EXCEPT ![w] = "relogin_except"]
          /\ UNCHANGED <<sess, retry>>
    /\ UNCHANGED <<scanVars, recordings, num_workers, chunk_duration, fs0, timed, now, spawn_at, entered, calls, fs, orchVars, logouts, cur,
                   wait_time, result, fh, pops, status, records, fetched, tracing>>

\* try: await api.login(); it returns and the loop continues, or it raises into
\* "except: pass"
Relogin(w) ==
    /\ wpc[w] = "relogin"
    /\ log' = Logged(w, <<"login", w>>)
    /\ \/ /\ sess' = [sess EXCEPT ![w] = "authenticated"]
          /\ wpc' = [wpc EXCEPT ![w] = "fetch"]
          /\ retry' = [retry EXCEPT ![w] = @ + 1]
       \/ /\ wpc' = [wpc EXCEPT ![w] = "relogin_except"]
          /\ UNCHANGED <<sess, retry>>
    /\ UNCHANGED <<scanVars, recordings, num_workers, chunk_duration, fs0, timed, now, spawn_at, entered, calls, fs, orchVars, logouts, cur,
                   wait_time, result, fh, pops, status, records, fetched, tracing>>

\* a re-login whose failure ends the chunk as failed
ReloginGivesUp(w) ==
    /\ wpc[w] = "relogin_except"
    /\ GiveUp(w)
    /\ log' = Logged(w, <<"login_raised", w>>)
    /\ UNCHANGED <<scanVars, recordings, num_workers, chunk_duration, fs0, timed, now, spawn_at, entered, calls, orchVars, sess, logouts,
                   cur, retry, wait_time, pops, status, records, fetched, tracing>>

\* except: pass; continue
ReloginSwallowed(w) ==
    /\ wpc[w] = "relogin_except"
    /\ wpc' = [wpc EXCEPT ![w] = "fetch"]
    /\ retry' = [retry EXCEPT ![w] = @ + 1]
    /\ log' = Logged(w, <<"login_raised", w>>)
    /\ UNCHANGED <<scanVars, recordings, num_workers, chunk_duration, fs0, timed, now, spawn_at, entered, calls, fs, orchVars, sess, logouts,
                   cur, wait_time, result, fh, pops, status, records, fetched, tracing>>

\* a worker that enters the block without waiting for the lock
AcquireNoWait(w) ==
    /\ wpc[w] = "record"
    /\ lock' = w
    /\ wpc' = [wpc EXCEPT ![w] = "locked"]
    /\ UNCHANGED <<scanVars, recordings, num_workers, chunk_duration, fs0, timed, now, spawn_at, entered, calls, fs, opc, aborted, vod_files,
                   chunks, queue, progress, spawned, printed, sess, logouts, cur,
                   retry, wait_time, result, fh, pops, status, records, fetched,
                   tracing, log>>

\* async with lock: the lock is taken
Acquire(w) ==
    /\ wpc[w] = "record"
    /\ lock = 0
    /\ lock' = w
    /\ wpc' = [wpc EXCEPT ![w] = "locked"]
    /\ UNCHANGED <<scanVars, recordings, num_workers, chunk_duration, fs0, timed, now, spawn_at, entered, calls, fs, opc, aborted, vod_files,
                   chunks, queue, progress, spawned, printed, sess, logouts, cur,
                   retry, wait_time, result, fh, pops, status, records, fetched,
                   tracing, log>>

\* the body of "async with lock": the counters
Recorded(pr, res) ==
    IF res.success
    THEN [pr EXCEPT !.downloaded = @ + 1, !.size_mb = @ + res.size]
    ELSE [pr EXCEPT !.failed = @ + 1]

\* a recording that puts a failed chunk back on the queue
RecordRequeue(w) ==
    /\ wpc[w] = "locked"
    /\ progress' = Recorded(progress, result[w])
    /\ status' = [status EXCEPT ![cur[w]] = result[w].status]
    /\ records' = [records EXCEPT ![cur[w]] = @ + 1]
    /\ queue' = IF result[w].success THEN queue ELSE Append(queue, cur[w])
    /\ lock' = 0
    /\ wpc' = [wpc EXCEPT ![w] = "pace"]
    /\ cur' = [cur EXCEPT ![w] = 0]
    /\ result' = [result EXCEPT ![w] = NoResult]
    /\ retry' = [retry EXCEPT ![w] = 0]
    /\ wait_time' = [wait_time EXCEPT ![w] = 0]
    /\ calls' = [calls EXCEPT ![w] = 0]
    /\ UNCHANGED <<scanVars, recordings, num_workers, chunk_duration, fs0, timed, now, spawn_at, entered, fs, opc, aborted, vod_files,
                   chunks, spawned, printed, sess, logouts, fh, pops,
                   fetched, tracing, log>>

\* the counters are updated, the lock released; the chunk's locals are dead
Record(w) ==
    /\ wpc[w] = "locked"
    /\ progress' = Recorded(progress, result[w])
    /\ status' = [status EXCEPT ![cur[w]] = result[w].status]
    /\ records' = [records EXCEPT ![cur[w]] = @ + 1]
    /\ lock' = 0
    /\ wpc' = [wpc EXCEPT ![w] = "pace"]
    /\ cur' = [cur EXCEPT ![w] = 0]
    /\ result' = [result EXCEPT ![w] = NoResult]
    /\ retry' = [retry EXCEPT ![w] = 0]
    /\ wait_time' = [wait_time EXCEPT ![w] = 0]
    /\ calls' = [calls EXCEPT ![w] = 0]
    /\ UNCHANGED <<scanVars, recordings, num_workers, chunk_duration, fs0, timed, now, spawn_at, entered, fs, opc, aborted, vod_files,
                   chunks, queue, spawned, printed, sess, logouts, fh, pops,
                   fetched, tracing, log>>

\* await asyncio.sleep(0.3) returns
Pace(w) ==
    /\ wpc[w] = "pace"
    /\ wpc' = [wpc EXCEPT ![w] = "pop"]
    /\ UNCHANGED <<scanVars, recordings, num_workers, chunk_duration, fs0, timed, now, spawn_at, entered, calls, fs, orchVars, sess,
                   logouts, cur, retry, wait_time, result, fh, pops, status, records,
                   fetched, tracing, log>>

\* finally: try: await api.logout(); it returns and the coroutine ends, or it
\* raises into "except: pass"
WorkerLogout(w) ==
    /\ wpc[w] = "logout"
    /\ logouts' = [logouts EXCEPT ![w] = @ + 1]
    /\ sess' = [sess EXCEPT ![w] = "closed"]
    /\ \/ wpc' = [wpc EXCEPT ![w] = "done"]
       \/ wpc' = [wpc EXCEPT ![w] = "logout_except"]
    /\ UNCHANGED <<scanVars, recordings, num_workers, chunk_duration, fs0, timed, now, spawn_at, entered, calls, fs, orchVars, cur, retry,
                   wait_time, result, fh, pops, status, records, fetched, tracing, log>>

\* except: pass; the coroutine ends
WorkerLogoutSwallowed(w) ==
    /\ wpc[w] = "logout_except"
    /\ wpc' = [wpc EXCEPT ![w] = "done"]
    /\ UNCHANGED <<scanVars, recordings, num_workers, chunk_duration, fs0, timed, now, spawn_at, entered, calls, fs, orchVars, sess, logouts,
                   cur, retry, wait_time, result, fh, pops, status, records, fetched,
                   tracing, log>>

WorkerStep(w) ==
    \/ WorkerLogin(w)
    \/ WorkerHostData(w)
    \/ Pop(w)
    \/ Fetch(w)
    \/ Stream(w)
    \/ Backoff(w)
    \/ Relogin(w)
    \/ ReloginSwallowed(w)
    \/ Acquire(w)
    \/ Record(w)
    \/ Pace(w)
    \/ WorkerLogout(w)
    \/ WorkerLogoutSwallowed(w)

OrchestratorStep ==
    \/ ScoutLogin
    \/ ScoutHostData
    \/ ScoutList
    \/ ScoutLogout
    \/ ScoutLogoutSwallowed
    \/ Plan
    \/ Preload
    \/ Spawn
    \/ Stagger
    \/ Summary

Next ==
    \/ OrchestratorStep
    \/ \E w \in Workers : WorkerStep(w)

Spec == Init /\ [][Next]_vars

\* the event loop runs every coroutine that is ready, and every remote call
\* and every sleep returns
Fairness ==
    /\ WF_vars(OrchestratorStep)
    /\ \A w \in Workers : WF_vars(WorkerStep(w))

FairSpec == Spec /\ Fairness

TaskSpec == InitTask /\ [][Next]_vars

\* the scout's steps and the planning, nothing after
\* a second passes while the orchestrator is in a pause of the create_task
\* loop; the workers run meanwhile
Tick ==
    /\ timed
    /\ opc = "stagger"
    /\ now < MaxClock
    /\ now' = now + 1
    /\ UNCHANGED <<scanVars, recordings, num_workers, chunk_duration, fs, fs0, opc, aborted, vod_files,
                   chunks, queue, progress, lock, spawned, printed, sess, logouts,
                   wpc, cur, retry, wait_time, result, fh, pops, status, records, fetched,
                   tracing, log, entered, calls, timed, spawn_at>>

ClockNext == Next \/ Tick

ClockSpec == InitClock /\ [][ClockNext]_vars

\* ------------------------------------------------------- motion service
\* Every access to scan_state in src/motion_detection/app.py is inside a
\* "with scan_lock:" block, so each block is one step.

\* the motion service alone: the downloader does not run
InitScan ==
    /\ recordings = <<>>
    /\ chunk_duration = CHUNK_DURATION_MINUTES
    /\ fs = <<>>
    /\ tracing = FALSE
    /\ timed = FALSE
    /\ num_workers = 1
    /\ fs0 = fs
    /\ opc = "scout_login"
    /\ aborted = FALSE
    /\ vod_files = <<>>
    /\ chunks = <<>>
    /\ queue = <<>>
    /\ progress = [downloaded |-> 0, failed |-> 0, total |-> 0, size_mb |-> 0]
    /\ lock = 0
    /\ spawned = 0
    /\ printed = {}
    /\ sess = [s \in Sessions |-> "none"]
    /\ logouts = [s \in Sessions |-> 0]
    /\ wpc = [w \in Workers |-> "idle"]
    /\ cur = [w \in Workers |-> 0]
    /\ retry = [w \in Workers |-> 0]
    /\ wait_time = [w \in Workers |-> 0]
    /\ result = [w \in Workers |-> NoResult]
    /\ fh = [w \in Workers |-> Closed]
    /\ pops = <<>>
    /\ status = <<>>
    /\ records = <<>>
    /\ fetched = {}
    /\ log = [w \in Workers |-> <<>>]
    /\ entered = {}
    /\ calls = [w \in Workers |-> 0]
    /\ now = 0
    /\ spawn_at = [w \in Workers |-> 0]
    /\ video_files \in 0..MaxVideos
    /\ ScanIdle

\* a POST /api/scan arrives and a server thread starts start_scan for it
Arrive(r) ==
    /\ rpc[r] = "idle"
    /\ rpc' = [rpc EXCEPT ![r] = "check"]
    /\ UNCHANGED <<dlVars, video_files, scan_state, response, spc, sidx, sres>>

\* with scan_lock: if scan_state['running']: return the error
StartScanCheck(r) ==
    /\ rpc[r] = "check"
    /\ IF scan_state.running
       THEN /\ response' = [response EXCEPT ![r] = "Scan already in progress"]
            /\ rpc' = [rpc EXCEPT ![r] = "done"]
       ELSE /\ rpc' = [rpc EXCEPT ![r] = "validate"]
            /\ UNCHANGED response
    /\ UNCHANGED <<dlVars, video_files, scan_state, spc, sidx, sres>>

\* roi = data.get('roi'); video_files = get_video_files(); the two error returns
StartScanValidate(r) ==
    /\ rpc[r] = "validate"
    /\ \/ /\ response' = [response EXCEPT ![r] = "No ROI specified"]
          /\ rpc' = [rpc EXCEPT ![r] = "done"]
       \/ IF video_files = 0
          THEN /\ response' = [response EXCEPT ![r] = "No video files found"]
               /\ rpc' = [rpc EXCEPT ![r] = "done"]
          ELSE /\ rpc' = [rpc EXCEPT ![r] = "reset"]
               /\ UNCHANGED response
    /\ UNCHANGED <<dlVars, video_files, scan_state, spc, sidx, sres>>

\* with scan_lock: scan_state = {'running': True, ...}
StartScanReset(r) ==
    /\ rpc[r] = "reset"
    /\ scan_state' = [running |-> TRUE, progress |-> 0, total |-> video_files,
                      current_file |-> 0, results |-> {}, cancelled |-> FALSE]
    /\ rpc' = [rpc EXCEPT ![r] = "submit"]
    /\ UNCHANGED <<dlVars, video_files, response, spc, sidx, sres>>

\* executor = ThreadPoolExecutor(max_workers=1); executor.submit(...); return
StartScanSubmit(r) ==
    /\ rpc[r] = "submit"
    /\ spc' = [spc EXCEPT ![r] = "loop"]
    /\ sidx' = [sidx EXCEPT ![r] = 0]
    /\ sres' = [sres EXCEPT ![r] = {}]
    /\ response' = [response EXCEPT ![r] = "started"]
    /\ rpc' = [rpc EXCEPT ![r] = "done"]
    /\ UNCHANGED <<dlVars, video_files, scan_state>>

\* scan_videos_worker: the head of the for loop and its "with scan_lock:" block
ScanLoop(r) ==
    /\ spc[r] = "loop"
    /\ IF sidx[r] >= video_files \/ scan_state.cancelled
       THEN /\ spc' = [spc EXCEPT ![r] = "final"]
            /\ UNCHANGED scan_state
       ELSE /\ scan_state' = [scan_state EXCEPT !.progress = sidx[r] + 1,
                                                !.current_file = sidx[r] + 1]
            /\ spc' = [spc EXCEPT ![r] = "detect"]
    /\ UNCHANGED <<dlVars, video_files, rpc, response, sidx, sres>>

\* detect_motion_in_roi(video_file, roi) returns; if has_motion: results.append
ScanDetect(r) ==
    /\ spc[r] = "detect"
    /\ \E has_motion \in BOOLEAN :
          sres' = [sres EXCEPT ![r] = IF has_motion THEN @ \cup {sidx[r] + 1} ELSE @]
    /\ sidx' = [sidx EXCEPT ![r] = @ + 1]
    /\ spc' = [spc EXCEPT ![r] = "loop"]
    /\ UNCHANGED <<dlVars, video_files, scan_state, rpc, response>>

\* the last "with scan_lock:" block: results, running = False
ScanFinish(r) ==
    /\ spc[r] = "final"
    /\ scan_state' = [scan_state EXCEPT !.results = sres[r], !.running = FALSE,
                                        !.current_file = 0]
    /\ spc' = [spc EXCEPT ![r] = "done"]
    /\ UNCHANGED <<dlVars, video_files, rpc, response, sidx, sres>>

\* POST /api/scan/cancel
CancelScan ==
    /\ ~scan_state.cancelled
    /\ scan_state' = [scan_state EXCEPT !.cancelled = TRUE]
    /\ UNCHANGED <<dlVars, video_files, rpc, response, spc, sidx, sres>>

ScanNext ==
    \/ \E r \in Requests :
          \/ Arrive(r)
          \/ StartScanCheck(r)
          \/ StartScanValidate(r)
          \/ StartScanReset(r)
          \/ StartScanSubmit(r)
          \/ ScanLoop(r)
          \/ ScanDetect(r)
          \/ ScanFinish(r)
    \/ CancelScan

ScanSpec == InitScan /\ [][ScanNext]_vars

PlanNext ==
    \/ ScoutLogin
    \/ ScoutHostData
    \/ ScoutList
    \/ ScoutLogout
    \/ ScoutLogoutSwallowed
    \/ Plan

PlanSpec == InitPlan /\ [][PlanNext]_vars

\* ===================================================================== claims
InFlight(t) == {w \in Workers : cur[w] = t}
Queued == {queue[i] : i \in 1..Len(queue)}
Tasks == DOMAIN status
Running(w) == wpc[w] \in {"fetch", "stream", "relogin", "relogin_except",
                          "sleep_busy", "sleep_session", "sleep_other"}

\* C1: every chunk leaves the queue at most once and is in the hands of at most
\* one worker at any instant; a chunk still queued is in nobody's hands, and no
\* chunk has its outcome recorded twice.
C1_AtMostOneAttemptInFlight ==
    \A t \in Tasks :
        /\ pops[t] <= 1
        /\ records[t] <= 1
        /\ Cardinality(InFlight(t)) <= 1
        /\ Cardinality({i \in 1..Len(queue) : queue[i] = t}) <= 1
        /\ t \in Queued => pops[t] = 0 /\ InFlight(t) = {}
        /\ InFlight(t) # {} => pops[t] = 1 /\ records[t] = 0

\* two workers are in their retry loops at once, on two different chunks
C1_Witness ==
    \E v, w \in Workers :
        /\ v # w /\ Running(v) /\ Running(w)
        /\ cur[v] # 0 /\ cur[w] # 0 /\ cur[v] # cur[w]

SegmentTasks(S) == SelectSeq(chunks, LAMBDA c : c.filename = S.file_name)

Tiles(ts, S, D) ==
    /\ ts # <<>>
    /\ ts[1].start = S.start_time
    /\ ts[Len(ts)].end = S.end_time
    /\ \A k \in 1..Len(ts) :
          /\ ts[k].start < ts[k].end
          /\ ts[k].end <= S.end_time
          /\ ts[k].end - ts[k].start <= D
    /\ \A k \in 1..(Len(ts) - 1) : ts[k + 1].start = ts[k].end

\* C2: once the plan is built, the chunks of every listed segment with
\* start < end are contiguous, start at the segment's start, end at its end,
\* are non-empty, stay inside the segment and are no longer than the chunk
\* duration, whatever the duration (>= 1).
C2_PlanTilesEverySegment ==
    opc = "preload" =>
        \A i \in 1..Len(vod_files) :
            vod_files[i].start_time < vod_files[i].end_time
                => Tiles(SegmentTasks(vod_files[i]), vod_files[i], chunk_duration)

\* a segment that needs three chunks, the last one clamped
C2_Witness ==
    /\ opc = "preload"
    /\ Len(vod_files) = 1
    /\ Len(chunks) = 3
    /\ chunks[3].end - chunks[3].start < chunk_duration
    /\ Tiles(SegmentTasks(vod_files[1]), vod_files[1], chunk_duration)

\* C3: when the summary is printed the queue is empty, downloaded + failed
\* equals total, and every chunk has been recorded exactly once.
C3_SummaryAccountsForEveryTask ==
    "summary" \in printed =>
        /\ queue = <<>>
        /\ progress.downloaded + progress.failed = progress.total
        /\ \A t \in Tasks : records[t] = 1 /\ status[t] # "none"

\* ---- the call log of one chunk
Events(l, kind) == SelectSeq(l, LAMBDA ev : ev[1] = kind)
Attempts(l) == Len(Events(l, "download_vod"))
\* the calls and their failures, without the note of a swallowed login failure
Calls(l) == SelectSeq(l, LAMBDA ev : ev[1] # "login_raised")
Finished(w) == wpc[w] \in {"record", "locked"}

\* every attempt was made and raised, and every exception was of the given class
EveryAttempt(l, class) ==
    /\ Attempts(l) >= 1
    /\ Len(Events(l, "raised")) = Attempts(l)
    /\ \A i \in 1..Len(l) : l[i][1] = "raised" => l[i][2] = class

RECURSIVE BusyTrace(_, _)
BusyTrace(w, a) ==
    IF a >= max_retries - 1
    THEN <<(<<"download_vod", w>>), (<<"raised", "busy">>)>>
    ELSE <<(<<"download_vod", w>>), (<<"raised", "busy">>), (<<"sleep", (a + 1) * 5>>)>>
         \o BusyTrace(w, a + 1)

StrictlyIncreasing(l) == \A i \in 1..(Len(l) - 1) : l[i][2] < l[i + 1][2]

\* C4: a chunk whose existence check failed and whose every attempt raised a
\* busy-class error has made exactly max_retries download_vod calls, slept
\* 5, 10, 15, 20 between them (strictly increasing), never logged in again,
\* returns "failed", and leaves no file at its output path.
C4_BusyTaskFailsAfterMaxRetries ==
    \A w \in Workers :
        Finished(w) /\ EveryAttempt(log[w], "busy") =>
            /\ Attempts(log[w]) = max_retries
            /\ log[w] = BusyTrace(w, 0)
            /\ Len(Events(log[w], "sleep")) = max_retries - 1
            /\ StrictlyIncreasing(Events(log[w], "sleep"))
            /\ Events(log[w], "login") = <<>>
            /\ result[w].status = "failed" /\ ~result[w].success
            /\ fs[PathOf(w)] = NoFile

\* a chunk with no file at the start has failed on busy errors only
C4_Witness ==
    \E w \in Workers :
        /\ Finished(w) /\ EveryAttempt(log[w], "busy")
        /\ fs0[PathOf(w)] = NoFile
        /\ result[w].status = "failed"

\* the first attempt raised a session-broken error and the second, the last,
\* left a non-empty file
SessionThenSuccess(l) ==
    /\ Len(l) >= 3
    /\ l[1][1] = "download_vod"
    /\ l[2][1] = "raised" /\ l[2][2] = "session"
    /\ Attempts(l) = 2
    /\ l[Len(l)][1] = "complete"

\* C5: such a chunk returns "downloaded" after exactly two download_vod calls
\* and exactly one api.login() on the worker's own session, the login coming
\* after the backoff sleep of 2 and before the second download_vod.
C5_SessionBrokenThenSuccess ==
    \A w \in Workers :
        Finished(w) /\ SessionThenSuccess(log[w]) =>
            /\ result[w].status = "downloaded" /\ result[w].success
            /\ Len(Calls(log[w])) = 6
            /\ Calls(log[w])[3] = <<"sleep", 2>>
            /\ Calls(log[w])[4] = <<"login", w>>
            /\ Calls(log[w])[5] = <<"download_vod", w>>
            /\ Len(Events(log[w], "login")) = 1
            /\ \A i \in 1..Len(log[w]) :
                  log[w][i][1] \in {"download_vod", "login"} => log[w][i][2] = w
            /\ ExistsNonEmpty(PathOf(w))

C5_Witness ==
    \E w \in Workers :
        /\ Finished(w) /\ SessionThenSuccess(log[w])
        /\ result[w].status = "downloaded"

\* every planned file was there, and not empty, when the run began
AllPresentAtStart == chunks # <<>> /\ \A p \in DOMAIN fs0 : fs0[p] # NoFile /\ fs0[p] > 0

\* C6: a run over a fully populated directory ends with no download_vod call
\* made, every chunk recorded as "exists", and the directory as it was.
C6_ResumeReportsEveryTaskExists ==
    AllPresentAtStart /\ opc = "done" =>
        /\ fetched = {}
        /\ fs = fs0
        /\ \A t \in Tasks : status[t] = "exists"

\* the listing has returned, and returned nothing
ListedNothing ==
    /\ opc \in {"scout_logout", "scout_logout_except", "done"}
    /\ ~aborted
    /\ vod_files = <<>>

\* C7: after an empty listing nothing is planned or queued, no worker exists,
\* no worker session is created, no download_vod is called, and the run ends
\* having printed that no recordings were found, and neither an error nor a
\* summary.
C7_EmptyListingStartsNothing ==
    /\ ListedNothing =>
          /\ chunks = <<>> /\ queue = <<>> /\ spawned = 0
          /\ \A w \in Workers : wpc[w] = "idle" /\ sess[w] = "none" /\ logouts[w] = 0
          /\ fetched = {}
          /\ printed \subseteq {"no_recordings"}
          /\ opc = "done" => printed = {"no_recordings"}
    /\ ~aborted /\ vod_files = <<>> => opc \notin {"plan", "preload", "spawn", "stagger", "gather"}

C7_Witness == ListedNothing /\ opc = "done" /\ printed = {"no_recordings"} /\ recordings = <<>>

IsSuffix(a, b) == \E k \in 0..Len(b) : a = SubSeq(b, k + 1, Len(b))

\* C8: once the queue is loaded it only loses chunks from its head, and a chunk
\* whose outcome is recorded keeps that outcome, is never queued again and is
\* never again in a worker's hands (so no download_vod is called for it).
C8_TerminalOutcomesAbsorbing ==
    [][/\ opc # "preload" => IsSuffix(queue', queue)
       /\ \A t \in Tasks :
            status[t] # "none" =>
                /\ status'[t] = status[t]
                /\ t \notin {queue'[i] : i \in 1..Len(queue')}
                /\ \A w \in Workers : cur'[w] # t
                /\ \A w \in Workers : ~(Fetch(w) /\ cur[w] = t)]_vars

\* a chunk is recorded as failed while a worker is still fetching another
C8_Witness ==
    /\ \E t \in Tasks : status[t] = "failed"
    /\ \E w \in Workers : wpc[w] = "fetch" /\ retry[w] > 0

\* C9: two workers never have chunks with the same output path in hand.
C9_OutputFilesExclusivelyOwned ==
    \A v, w \in Workers :
        v # w /\ cur[v] # 0 /\ cur[w] # 0 => PathOf(v) # PathOf(w)

\* an operation on the worker's session
SessionCall(w) ==
    WorkerLogin(w) \/ WorkerHostData(w) \/ Fetch(w) \/ Relogin(w) \/ WorkerLogout(w)

\* C10: every run comes to its end, and then every spawned worker has ended;
\* a worker that has ended, or whose logout raised, has called logout on its
\* session exactly once, and no worker calls anything on its session after
\* logout; a run that spawned workers ends with the summary, whether or not
\* a logout raised.
C10_EveryWorkerReleasesItsSession ==
    /\ [](\A w \in Workers :
            /\ logouts[w] <= 1
            /\ wpc[w] # "idle" <=> w \in 1..spawned
            /\ wpc[w] \in {"done", "logout_except"} => logouts[w] = 1 /\ sess[w] = "closed"
            /\ opc = "done" /\ w \in 1..spawned => wpc[w] = "done" /\ "summary" \in printed)
    /\ [][\A w \in Workers : logouts[w] >= 1 => ~SessionCall(w)]_vars
    /\ <>(opc = "done")

\* a worker whose login or get_host_data raised, and whose logout raised too
C10_Witness ==
    \E w \in Workers : wpc[w] = "logout_except" /\ queue # <<>> /\ logouts[w] = 1

\* positions of a worker outside its task loop
OutsideLoop == {"idle", "start", "hostdata", "logout", "logout_except", "done"}

\* worker w fails to set up its session: login or get_host_data raises
SetupRaised(w) ==
    /\ WorkerLogin(w) \/ WorkerHostData(w)
    /\ wpc'[w] = "logout"

\* C11: a worker whose login or get_host_data raised takes no chunk from the
\* queue and goes to its logout; its failure leaves the queue and every other
\* worker as they were; and when the run has ended with at least one worker
\* having reached its loop, every chunk of the plan has its outcome recorded.
C11_SetupFailureIsLocal ==
    /\ [](\A w \in Workers :
            w \notin entered => wpc[w] \in OutsideLoop /\ cur[w] = 0 /\ calls[w] = 0)
    /\ [](opc = "done" /\ entered # {} =>
            queue = <<>> /\ \A t \in Tasks : status[t] # "none" /\ records[t] >= 1)
    /\ [][\A w \in Workers : SetupRaised(w) =>
            /\ queue' = queue /\ pops' = pops /\ opc' = opc
            /\ \A v \in Workers \ {w} :
                  wpc'[v] = wpc[v] /\ cur'[v] = cur[v] /\ sess'[v] = sess[v]]_vars

\* a run of two workers has ended: the first never reached its loop, the second
\* did and the plan's chunks were fetched
C11_Witness ==
    /\ opc = "done" /\ num_workers = 2
    /\ entered = {2} /\ wpc[1] = "done"
    /\ Len(chunks) = MaxTasks
    /\ \A t \in Tasks : status[t] = "downloaded"

\* C12: when the scout's login, get_host_data or listing raises, the error is
\* reported and the run is given up: from then on there is no plan, nothing in
\* the queue, no worker created and nothing else printed, in particular no
\* summary; the scout's logout is still called, once, before the run ends.
C12_ScoutFailureAbortsRun ==
    /\ "search_error" \in printed <=> aborted
    /\ sess[SCOUT] = "created" => aborted
    /\ aborted =>
            /\ chunks = <<>> /\ queue = <<>> /\ progress.total = 0
            /\ spawned = 0 /\ \A w \in Workers : wpc[w] = "idle" /\ sess[w] = "none"
            /\ printed = {"search_error"}
            /\ opc \in {"scout_logout", "scout_logout_except", "done"}
            /\ opc # "scout_logout" => logouts[SCOUT] = 1 /\ sess[SCOUT] = "closed"

\* the scout's try block raised on a device that has recordings, the scout's
\* logout was called and the run has ended
C12_Witness ==
    /\ aborted /\ opc = "done"
    /\ recordings # <<>> /\ vod_files = <<>>
    /\ logouts[SCOUT] = 1

\* worker w takes a step while it has a chunk in hand
TaskStep(w) == cur[w] # 0 /\ WorkerStep(w)

\* an attempt of worker w's chunk fails: the except branch, or the give-up
FailureStep(w) ==
    /\ TaskStep(w)
    /\ wpc[w] \in {"fetch", "stream"}
    /\ \/ wpc'[w] \in {"sleep_busy", "sleep_session", "sleep_other"}
       \/ wpc'[w] = "record" /\ result'[w].status = "failed"

\* C13: a worker that has reached its loop leaves it only when it finds the
\* queue empty, never because a chunk failed; a chunk comes back from the retry
\* loop with one of the three outcomes, "failed" only after max_retries
\* download_vod calls, and it is recorded as such; after recording, the same
\* worker pauses and goes back to the queue, taking the oldest chunk if there
\* is one; no step a worker takes on its chunk changes the position, the
\* chunk, the retry count or the result of another worker; and a failed
\* attempt of one chunk changes neither the file another worker has open nor
\* the output file of a chunk recorded as downloaded or already there.
C13_TaskErrorsAreContained ==
    /\ [](\A w \in Workers : Finished(w) =>
            /\ result[w].status \in {"exists", "downloaded", "failed"}
            /\ result[w].success <=> result[w].status # "failed"
            /\ result[w].status = "failed" => calls[w] = max_retries)
    /\ [][\A w \in Workers :
            /\ wpc[w] \notin OutsideLoop /\ wpc'[w] \in OutsideLoop =>
                  wpc[w] = "pop" /\ queue = <<>> /\ wpc'[w] = "logout"
            /\ Record(w) => status'[cur[w]] = result[w].status /\ wpc'[w] = "pace"
            /\ wpc[w] = "pace" => wpc'[w] \in {"pace", "pop"}
            /\ Pop(w) /\ queue # <<>> => cur'[w] = Head(queue) /\ queue' = Tail(queue)
            /\ TaskStep(w) => \A v \in Workers \ {w} :
                  /\ wpc'[v] = wpc[v] /\ cur'[v] = cur[v] /\ retry'[v] = retry[v]
                  /\ result'[v] = result[v] /\ calls'[v] = calls[v]
            /\ FailureStep(w) =>
                  /\ \A v \in Workers \ {w} : fh'[v] = fh[v]
                  /\ \A t \in Tasks \ {cur[w]} :
                        status[t] \in {"downloaded", "exists"} =>
                            fs'[chunks[t].output] = fs[chunks[t].output]]_vars

\* ceil(L / D) for L >= 0, D >= 1
CeilDiv(L, D) == (L + D - 1) \div D

ChunkLength(c) == c.end - c.start

\* C14: once the plan is built, a listed segment of length L > 0 has exactly
\* ceil(L / D) chunks for the chunk duration D; the k-th starts (k-1)*D after
\* the segment's start, so they come in chronological order; every chunk but
\* the last is exactly D long and the last is what remains, between 1 and D;
\* a segment shorter than D has one chunk, from its start to its end.
C14_ChunkCountAndLengths ==
    opc = "preload" =>
        \A i \in 1..Len(vod_files) :
            LET S == vod_files[i]
                L == S.end_time - S.start_time
                D == chunk_duration
                ts == SegmentTasks(S)
                n == Len(ts)
            IN  L > 0 =>
                  /\ n = CeilDiv(L, D)
                  /\ \A k \in 1..n : ts[k].start = S.start_time + (k - 1) * D
                  /\ \A k \in 1..(n - 1) : ChunkLength(ts[k]) = D
                  /\ ChunkLength(ts[n]) = L - (n - 1) * D
                  /\ ChunkLength(ts[n]) \in 1..D
                  /\ L < D => ts = <<[filename |-> S.file_name, start |-> S.start_time,
                                      end |-> S.end_time,
                                      output |-> OutputPath(Day, S.start_time)]>>

\* a 12-minute segment planned with the program's 5-minute window: chunks of
\* 5, 5 and 2 minutes
C14_Witness ==
    /\ opc = "preload"
    /\ chunk_duration = CHUNK_DURATION_MINUTES
    /\ vod_files = <<Segment(1, 0, 12)>>
    /\ Len(chunks) = 3
    /\ <<ChunkLength(chunks[1]), ChunkLength(chunks[2]), ChunkLength(chunks[3])>> = <<5, 5, 2>>

\* the Host objects that are logged in
Authenticated == {s \in Sessions : sess[s] = "authenticated"}

\* C15: a worker's Host object exists from the worker's first step on and
\* only for workers of the run; every step of a worker changes the state and
\* the logout count of its own session only, and the orchestrator's steps
\* change the scout's only; when the first worker session exists the scout's
\* logout has been called and its session is closed; at most num_workers
\* sessions are logged in at any instant.
C15_SessionsAreNotShared ==
    /\ [](\A w \in Workers :
            /\ sess[w] = "none" <=> wpc[w] \in {"idle", "start"}
            /\ sess[w] # "none" =>
                  w \in 1..num_workers /\ sess[SCOUT] = "closed" /\ logouts[SCOUT] = 1)
    /\ [](Cardinality(Authenticated) <= num_workers)
    /\ [][/\ \A w \in Workers : WorkerStep(w) =>
                \A s \in Sessions \ {w} : sess'[s] = sess[s] /\ logouts'[s] = logouts[s]
          /\ OrchestratorStep =>
                \A w \in Workers : sess'[w] = sess[w] /\ logouts'[w] = logouts[w]]_vars

\* both workers of a run are logged in, each on its own session, and are
\* fetching; the scout's session is closed
C15_Witness ==
    /\ num_workers = 2
    /\ Authenticated = Workers
    /\ sess[SCOUT] = "closed"
    /\ wpc[1] = "fetch" /\ retry[1] = 1 /\ wpc[2] = "stream"

\* the run is over: the orchestrator has returned and no worker is left
RunEnded == opc = "done" /\ \A w \in Workers : wpc[w] \in {"idle", "done"}

\* C16: under fair scheduling, with every remote call and sleep returning,
\* every run comes to its end with no worker left running; no chunk has
\* download_vod called more than max_retries times; and a run that built a
\* plan ends with every one of its num_workers workers done and the summary
\* printed, whatever the listing and whatever calls raise.
C16_EveryRunTerminates ==
    /\ [](\A w \in Workers : calls[w] <= max_retries /\ retry[w] <= max_retries - 1)
    /\ [](opc = "done" /\ chunks # <<>> =>
            /\ "summary" \in printed
            /\ \A w \in 1..num_workers : wpc[w] = "done")
    /\ <>RunEnded

\* a run of two workers has ended with its summary: one chunk failed after
\* max_retries calls, the other was downloaded
C16_Witness ==
    /\ RunEnded /\ "summary" \in printed /\ num_workers = 2
    /\ status = <<"failed", "downloaded">>
    /\ fetched = {1, 2}

\* the order of the orchestrator's positions in download_day_recordings_parallel
Rank(pc) ==
    CASE pc = "scout_login" -> 1
      [] pc = "scout_hostdata" -> 2
      [] pc = "scout_list" -> 3
      [] pc = "scout_logout" -> 4
      [] pc = "scout_logout_except" -> 5
      [] pc = "plan" -> 6
      [] pc = "preload" -> 7
      [] pc = "spawn" -> 8
      [] pc = "stagger" -> 9
      [] pc = "gather" -> 10
      [] pc = "done" -> 11

FullQueue == [i \in 1..Len(chunks) |-> i]

\* C17: the orchestrator only moves forward through scout login, host data,
\* listing, scout logout, planning, preloading, creating workers, gather and
\* end (going back only from the pause after one create_task to the next
\* create_task); the listing is there only after the scout logged in, the plan
\* only after the scout's logout was called, a worker only after the queue
\* was preloaded; the first chunk is taken from a queue that holds the whole
\* plan in order; and the summary is printed only at the end, when all
\* num_workers workers were created and every one of them is done.
C17_OrchestratorStepsInOrder ==
    /\ [](/\ vod_files # <<>> => sess[SCOUT] \in {"authenticated", "closed"} /\ Rank(opc) >= 4
          /\ chunks # <<>> => logouts[SCOUT] = 1 /\ Rank(opc) >= 7
          /\ queue # <<>> => Rank(opc) >= 8
          /\ spawned > 0 =>
                /\ Rank(opc) >= 8
                /\ DOMAIN pops = 1..Len(chunks) /\ progress.total = Len(chunks)
                /\ \A t \in 1..Len(chunks) : t \in Queued \/ pops[t] >= 1
          /\ \A w \in Workers : wpc[w] # "idle" => w \in 1..spawned
          /\ "summary" \in printed =>
                /\ opc = "done" /\ spawned = num_workers
                /\ \A w \in 1..num_workers : wpc[w] = "done")
    /\ [][/\ opc' # opc =>
                \/ Rank(opc') > Rank(opc)
                \/ opc = "stagger" /\ opc' = "spawn"
          /\ \A w \in Workers :
                Pop(w) /\ (\A t \in DOMAIN pops : pops[t] = 0) => queue = FullQueue]_vars

\* the first worker is fetching the first chunk while the orchestrator pauses
\* before creating the second worker; the rest of the plan is still queued
C17_Witness ==
    /\ opc = "stagger" /\ spawned = 1 /\ num_workers = 2
    /\ wpc[1] = "fetch" /\ cur[1] = 1
    /\ queue = <<2>>

RECURSIVE SumSeq(_)
SumSeq(q) == IF q = <<>> THEN 0 ELSE Head(q) + SumSeq(Tail(q))

\* the workers inside "async with lock"
InCritical == {w \in Workers : wpc[w] = "locked"}

\* C18: at most one worker is inside the locked block, and it is the one the
\* lock names; once the progress dict exists its total equals the number of
\* planned chunks, and downloaded + failed equals the number of outcomes
\* recorded, which is the number of chunks with an outcome and at most total;
\* after its creation the dict changes only in a step of the worker holding
\* the lock, which leaves total alone and lowers no counter.
C18_ProgressUpdatedUnderLock ==
    /\ [](/\ Cardinality(InCritical) <= 1
          /\ \A w \in Workers : wpc[w] = "locked" <=> lock = w
          /\ Rank(opc) >= 8 =>
                /\ progress.total = Len(chunks)
                /\ progress.downloaded + progress.failed = SumSeq(records)
                /\ progress.downloaded + progress.failed
                      = Cardinality({t \in Tasks : status[t] # "none"})
                /\ progress.downloaded + progress.failed <= progress.total)
    /\ [][progress' # progress /\ opc # "preload" =>
            /\ lock # 0 /\ wpc[lock] = "locked" /\ Record(lock)
            /\ progress'.total = progress.total
            /\ progress'.downloaded >= progress.downloaded
            /\ progress'.failed >= progress.failed
            /\ progress'.size_mb >= progress.size_mb
            /\ progress'.downloaded + progress'.failed
                  = progress.downloaded + progress.failed + 1]_vars

\* both workers have recorded an outcome under the lock, one chunk downloaded
\* and one failed, and the lock is free again
C18_Witness ==
    /\ opc = "gather" /\ lock = 0
    /\ progress.total = 2 /\ progress.downloaded = 1 /\ progress.failed = 1
    /\ wpc = <<"pace", "pace">>

\* the chunk's first download_vod raised a session error, the re-login that
\* followed raised too, and the second download_vod delivered a non-empty file
ReloginFailedThenSuccess(w, l) ==
    /\ Len(l) >= 5
    /\ l[1] = <<"download_vod", w>>
    /\ l[2] = <<"raised", "session">>
    /\ l[5] = <<"login_raised", w>>
    /\ Attempts(l) = 2
    /\ l[Len(l)][1] = "complete"

\* C19: a failure of the re-login is swallowed: it comes right after the
\* api.login() call and the very next thing the chunk does is its next
\* download_vod, so the chunk is never ended by it; and a chunk whose first
\* attempt raised a session error, whose re-login raised and whose second
\* attempt delivered the file returns "downloaded" after exactly that: call,
\* error, sleep of 2, login, its failure, call, file complete.
C19_ReloginIsBestEffort ==
    \A w \in Workers :
        LET l == log[w] IN
        /\ \A i \in 1..Len(l) : l[i][1] = "login_raised" =>
              /\ i > 1 /\ l[i - 1] = <<"login", w>>
              /\ IF i < Len(l) THEN l[i + 1] = <<"download_vod", w>>
                              ELSE wpc[w] = "fetch" /\ retry[w] = calls[w]
        /\ Finished(w) /\ ReloginFailedThenSuccess(w, l) =>
              /\ result[w].status = "downloaded" /\ result[w].success
              /\ Len(l) = 7
              /\ SubSeq(l, 1, 6) = <<(<<"download_vod", w>>), (<<"raised", "session">>),
                                     (<<"sleep", 2>>), (<<"login", w>>),
                                     (<<"login_raised", w>>), (<<"download_vod", w>>)>>
              /\ l[7] = <<"complete", result[w].size>>
              /\ ExistsNonEmpty(PathOf(w))

\* such a chunk has returned "downloaded"
C19_Witness ==
    \E w \in Workers :
        /\ Finished(w) /\ ReloginFailedThenSuccess(w, log[w])
        /\ result[w].status = "downloaded" /\ calls[w] = 2

\* 0-based number of the attempt that the i-th entry of l belongs to
AttemptOf(l, i) == Attempts(SubSeq(l, 1, i)) - 1

\* the backoff the retry policy prescribes after a failure of class c on attempt a
PrescribedSleep(c, a) == IF c = "busy" THEN (a + 1) * 5 ELSE (a + 1) * 2

\* the session errors of l that the policy answers with a re-login
ReloginDue(l) ==
    {i \in 1..Len(l) : l[i] = <<"raised", "session">> /\ AttemptOf(l, i) < max_retries - 1}

\* C20: in the call log of the chunk a worker has in hand, an error raised on attempt a (0-based)
\* before the last one is followed by one sleep of (a+1)*5 when it is busy and
\* of (a+1)*2 when it is session or other, then by api.login() exactly when it
\* is session, then by the next download_vod; an error on the last attempt is
\* the end of the log and the chunk returns "failed"; a login only ever
\* follows the sleep after a session error; and a finished chunk has made as
\* many logins as it had session errors before its last attempt.
C20_RetryPolicyByErrorClass ==
    \A w \in Workers :
        LET l == Calls(log[w]) IN
        cur[w] # 0 =>
        /\ \A i \in 1..Len(l) : l[i][1] = "raised" =>
              LET a == AttemptOf(l, i)
                  c == l[i][2]
              IN  IF a < max_retries - 1
                  THEN /\ IF i = Len(l)
                          THEN /\ wpc[w] = SleepAt(c)
                               /\ wait_time[w] = PrescribedSleep(c, a)
                          ELSE l[i + 1] = <<"sleep", PrescribedSleep(c, a)>>
                       /\ i + 1 = Len(l) =>
                             wpc[w] = IF c = "session" THEN "relogin" ELSE "fetch"
                       /\ i + 1 < Len(l) =>
                             l[i + 2] = IF c = "session" THEN <<"login", w>>
                                                         ELSE <<"download_vod", w>>
                       /\ i + 2 < Len(l) /\ c = "session" =>
                             l[i + 3] = <<"download_vod", w>>
                  ELSE /\ i = Len(l)
                       /\ Finished(w) /\ result[w].status = "failed"
        /\ \A i \in 1..Len(l) : l[i][1] = "login" =>
              i >= 3 /\ l[i - 1][1] = "sleep" /\ l[i - 2] = <<"raised", "session">>
        /\ \A i \in 1..Len(l) : l[i][1] = "sleep" => i >= 2 /\ l[i - 1][1] = "raised"
        /\ Finished(w) => Len(Events(l, "login")) = Cardinality(ReloginDue(l))

\* a chunk has failed after errors of all three classes: busy, session, other,
\* session, and session again on the last attempt, with two logins in all
C20_Witness ==
    \E w \in Workers :
        /\ Finished(w) /\ result[w].status = "failed"
        /\ Events(log[w], "raised") =
              <<(<<"raised", "busy">>), (<<"raised", "session">>), (<<"raised", "other">>),
                (<<"raised", "session">>), (<<"raised", "session">>)>>
        /\ Events(log[w], "sleep") =
              <<(<<"sleep", 5>>), (<<"sleep", 4>>), (<<"sleep", 6>>), (<<"sleep", 8>>)>>
        /\ Len(Events(log[w], "login")) = 2

\* C21: when a run has ended, every chunk recorded as downloaded or as
\* already there has a non-empty file at its output path, and every chunk
\* recorded as failed has no file at its output path, whatever the listing
\* (segments that overlap included) and the number of workers.
C21_FilesAgreeWithOutcomes ==
    RunEnded =>
        \A t \in Tasks :
            /\ status[t] \in {"downloaded", "exists"} => ExistsNonEmpty(chunks[t].output)
            /\ status[t] = "failed" => fs[chunks[t].output] = NoFile

RECURSIVE EmptyTrace(_, _)
EmptyTrace(w, n) ==
    IF n = 0 THEN <<>>
    ELSE <<(<<"download_vod", w>>), (<<"empty", 0>>)>> \o EmptyTrace(w, n - 1)

\* every attempt of the chunk so far ended with an empty file
EveryAttemptEmpty(l) == Attempts(l) >= 1 /\ Len(Events(l, "empty")) = Attempts(l)

\* C22: for the chunk a worker has in hand, an attempt that ends with an empty
\* file does not end the chunk as downloaded: the next entry of the call log
\* is the next download_vod, with no sleep and no login in between, unless it
\* was the last attempt, and then the chunk returns "failed"; a chunk whose
\* attempts all ended with an empty file has made exactly max_retries calls
\* and nothing else, returns "failed", and leaves no file at its output path.
C22_EmptyFileIsNotSuccess ==
    \A w \in Workers :
        LET l == log[w] IN
        cur[w] # 0 =>
        /\ \A i \in 1..Len(l) : l[i][1] = "empty" =>
              /\ i > 1 /\ l[i - 1] = <<"download_vod", w>>
              /\ IF AttemptOf(l, i) < max_retries - 1
                 THEN IF i < Len(l) THEN l[i + 1] = <<"download_vod", w>>
                                   ELSE wpc[w] = "fetch" /\ retry[w] = AttemptOf(l, i) + 1
                 ELSE i = Len(l) /\ Finished(w) /\ result[w].status = "failed"
        /\ Finished(w) /\ EveryAttemptEmpty(l) =>
              /\ l = EmptyTrace(w, max_retries)
              /\ calls[w] = max_retries
              /\ result[w] = [success |-> FALSE, size |-> 0, status |-> "failed"]
              /\ fs[PathOf(w)] = NoFile

\* a chunk has returned "failed" after max_retries attempts that each left an
\* empty file
C22_Witness ==
    \E w \in Workers :
        /\ Finished(w) /\ EveryAttemptEmpty(log[w])
        /\ Attempts(log[w]) = max_retries
        /\ result[w].status = "failed"

\* C23: recording an outcome adds the chunk's size to progress.size_mb when
\* the chunk was downloaded and adds nothing when it failed or was already
\* there; so a run that made no download_vod call ends with size_mb = 0.
C23_SizeCountsTransferredBytesOnly ==
    /\ [][\A w \in Workers : Record(w) =>
            progress'.size_mb = progress.size_mb
                + (IF result[w].status = "downloaded" THEN result[w].size ELSE 0)]_vars
    /\ [](RunEnded /\ fetched = {} => progress.size_mb = 0)

\* C24: with the clock running, a worker is created at least 1 second after
\* the worker before it, and as long as less than 1 second has passed since a
\* worker was created the next one does not exist: it has no session and is
\* at no position of its code.
C24_WorkerStartsAreStaggered ==
    \A k \in Workers : k + 1 \in Workers =>
        /\ k + 1 <= spawned => spawn_at[k + 1] >= spawn_at[k] + 1
        /\ k <= spawned /\ now < spawn_at[k] + 1 =>
              spawned = k /\ wpc[k + 1] = "idle" /\ sess[k + 1] = "none"

\* within the second after its creation the first of two workers has logged
\* in, taken a chunk and is fetching it; the second worker does not exist yet
C24_Witness ==
    /\ timed /\ num_workers = 2 /\ spawned = 1
    /\ now < spawn_at[1] + 1
    /\ sess[1] = "authenticated" /\ wpc[1] = "fetch" /\ cur[1] = 1
    /\ wpc[2] = "idle"

\* the scans whose worker thread is running
ActiveScans == {r \in Requests : spc[r] \in {"loop", "detect", "final"}}

\* C25: in the motion service at most one scan worker is running at any
\* time, whatever the interleaving of the start_scan requests, and
\* scan_state says "running" whenever a scan worker is.
C25_AtMostOneScanRunning ==
    /\ Cardinality(ActiveScans) <= 1
    /\ ActiveScans # {} => scan_state.running

====
